---- MODULE Spec2Model ----
(***************************************************************************)
(* State-machine model of the two model wrappers of the repository:        *)
(*   models/perceptual_cycle_gan_model.py  (PerceptualCycleGANModel)       *)
(*   models/unet_model.py                  (UnetModel)                     *)
(*                                                                         *)
(* Tensors are terms <<tag, k, n, args>>: tag names the operation that     *)
(* produced the tensor, k is a parameter version or an image id, n is the  *)
(* size of dimension 0 (the batch) and args are the operand terms.  The    *)
(* autograd graph of a tensor is the term itself, cut at "detach".         *)
(***************************************************************************)
EXTENDS Integers, Sequences, FiniteSets, TLC

\* ------------------------------------------------------------------ bounds
MaxSteps == 2    \* optimizer steps taken per optimizer in one run
MaxBatch == 2    \* largest batch the data loader delivers / opt.batch_size

ImageIds  == {1, 2}   \* distinct images of domain 'A' in the data set
PoolSizes == {0, 1}   \* values of opt.pool_size
ValMod    == 3        \* scalar summaries of tensors are taken modulo ValMod

\* ------------------------------------------------- options (train defaults)
lambda_A == 10
lambda_B == 10

NoPath == "None"

\* ------------------------------------------------------------------ tensors
None == <<"none", 0, 0, <<>>>>
Img(dom, k, n) == <<dom, k, n, <<>>>>
Batch(t) == t[3]
Cat1(x, y) == <<"cat1", 0, Batch(x), <<x, y>>>>
CatOK(x, y) == x /= None /\ y /= None /\ Batch(x) = Batch(y)
Cat0(x, y) == <<"cat0", 0, Batch(x) + Batch(y), <<x, y>>>>
Detach(x) == <<"detach", 0, Batch(x), <<x>>>>
NetApply(name, p, x) == <<name, p, Batch(x), <<x>>>>

NetNames == {"G_A", "G_B", "D_A", "D_B", "aux_net", "eval_net"}

NetOffset(name) ==
    CASE name = "G_A" -> 1
      [] name = "G_B" -> 2
      [] name = "D_A" -> 1
      [] name = "D_B" -> 2
      [] OTHER -> 0

RECURSIVE GraphNets(_)
GraphNets(t) ==
    IF t[1] \in {"detach", "numpy"}
    THEN {}
    ELSE (IF t[1] \in NetNames THEN {t[1]} ELSE {})
         \cup UNION {GraphNets(t[4][i]) : i \in 1..Len(t[4])}

RECURSIVE Val(_)
Val(t) ==
    IF t[1] \in {"A", "B"} THEN t[2] % ValMod
    ELSE IF t[1] \in NetNames THEN (Val(t[4][1]) + t[2] + NetOffset(t[1])) % ValMod
    ELSE IF t[1] \in {"cat1", "cat0", "numpy"} THEN (Val(t[4][1]) + Val(t[4][2])) % ValMod
    ELSE IF t[1] = "detach" THEN Val(t[4][1])
    ELSE 0

Abs(x) == IF x < 0 THEN -x ELSE x
L1Loss(x, y) == Abs(Val(x) - Val(y))
GANLoss(pred, target_is_real) ==
    LET target == IF target_is_real THEN 1 ELSE 0
    IN  (Val(pred) - target) * (Val(pred) - target)

\* =========================================================================
\*  PerceptualCycleGANModel
\* =========================================================================
VARIABLES
    opt,            \* the option object handed to __init__ (line 99 writes to it)
    status,         \* "new" | "ready" | "failed": outcome of __init__
    err,            \* exception raised by the last handler, "none" if it returned
    pc,             \* position inside optimize_parameters, "idle" outside of it
    nets,           \* networks the model owns
    params,         \* parameter version of each network
    requires_grad,  \* requires_grad flag of each network's parameters
    grad,           \* losses whose gradient is accumulated in each network's .grad
    activation,     \* self.activation, the slot the forward hook writes
    real_A, real_B, aux_A, aux_B,
    fake_B, rec_A, fake_A, rec_B,
    idt_A, idt_B,
    loss,           \* the loss_<name> attributes set so far
    fake_A_pool, fake_B_pool,
    preds, labels,  \* value returned by the last model_evaluation
    trace,          \* history: steps taken by the current optimize_parameters call
    queried         \* history: pool queries of the current optimize_parameters call,
                    \* each <<pool, image given, image returned, tensor fed to D>>

inputVars   == <<real_A, real_B, aux_A, aux_B, activation>>
derivedVars == <<fake_B, rec_A, fake_A, rec_B>>
netVars     == <<nets, params, requires_grad>>
poolVars    == <<fake_A_pool, fake_B_pool>>
evalVars    == <<preds, labels>>
histVars    == <<trace, queried>>
ganVars     == <<opt, status, err, pc, netVars, grad, inputVars, derivedVars,
                 idt_A, idt_B, loss, poolVars, evalVars, histVars>>

NoLosses == [x \in {} |-> 0]
SetLoss(l, name, v) == [x \in (DOMAIN l) \cup {name} |-> IF x = name THEN v ELSE l[x]]

\* the parser's defaults (lambda_identity, pool_size and batch_size scaled down)
DefaultGanOptions ==
    [ isTrain |-> TRUE, lambda_identity |-> 1, input_nc |-> 3, output_nc |-> 3,
      use_val |-> FALSE, aux_model_path |-> "aux.pth", eval_net_path |-> NoPath,
      batch_size |-> 1, pool_size |-> 1, direction |-> "AtoB" ]

GanOptionFields == DOMAIN DefaultGanOptions

\* the option objects explored: every combination that departs from the defaults in at
\* most two options
GanOptions ==
    { o \in [ isTrain : BOOLEAN, lambda_identity : {-1, 0, 1}, input_nc : {1, 3},
              output_nc : {3}, use_val : BOOLEAN, aux_model_path : {NoPath, "aux.pth"},
              eval_net_path : {NoPath, "eval.pth"}, batch_size : 1..MaxBatch,
              pool_size : PoolSizes, direction : {"AtoB", "BtoA"} ] :
        \* --lambda_identity exists only when is_train (line 46); opt.use_val is read
        \* in both modes (line 95)
        /\ (~o.isTrain => o.lambda_identity = 0)
        /\ Cardinality({f \in GanOptionFields \ {"lambda_identity"} :
                           o[f] /= DefaultGanOptions[f]})
             + (IF o.isTrain /\ o.lambda_identity /= 1 THEN 1 ELSE 0) <= 2 }

GanInit ==
    /\ opt \in GanOptions
    /\ status = "new"
    /\ err = "none"
    /\ pc = "idle"
    /\ nets = {}
    /\ params = [n \in NetNames |-> 0]
    /\ requires_grad = [n \in NetNames |-> TRUE]
    /\ grad = [n \in NetNames |-> {}]
    /\ activation = [layer4 |-> None]
    /\ real_A = None /\ real_B = None /\ aux_A = None /\ aux_B = None
    /\ fake_B = None /\ rec_A = None /\ fake_A = None /\ rec_B = None
    /\ idt_A = None /\ idt_B = None
    /\ loss = NoLosses
    /\ fake_A_pool = <<>> /\ fake_B_pool = <<>>
    /\ preds = <<>> /\ labels = <<>>
    /\ trace = <<>>
    /\ queried = <<>>

\* BaseModel.load_model_by_path: a missing path is an unhandled load failure
LoadOK(path) == path /= NoPath

\* BaseModel.set_requires_grad(nets, flag)
set_requires_grad(rg, ns, flag) == [n \in NetNames |-> IF n \in ns THEN flag ELSE rg[n]]

\* line 98-99: the evaluation network defaults to the auxiliary network's path
EvalPath(o) == IF o.eval_net_path = NoPath THEN o.aux_model_path ELSE o.eval_net_path

\* variant: the check made for every nonzero weight
IdentityAssertFails_nonzero(o) == o.lambda_identity /= 0 /\ o.input_nc /= o.output_nc
\* line 119-120: the channel check of the identity loss
IdentityAssertFails(o) == o.lambda_identity > 0 /\ o.input_nc /= o.output_nc

\* variant: the evaluation network is loaded but not frozen
FrozenNets_aux_only(o) == {"aux_net"}
\* lines 85 and 102: the networks whose parameters are frozen
FrozenNets(o) == {"aux_net"} \cup (IF o.use_val THEN {"eval_net"} ELSE {})

\* __init__, lines 59-131
GanConfigure ==
    /\ status = "new"
    /\ LET o2 == IF opt.use_val THEN [opt EXCEPT !.eval_net_path = EvalPath(opt)] ELSE opt
           failAux  == ~LoadOK(opt.aux_model_path)
           failEval == ~failAux /\ opt.use_val /\ ~LoadOK(o2.eval_net_path)
           failIdt  == ~failAux /\ ~failEval /\ opt.isTrain /\ IdentityAssertFails(opt)
           frozen   == FrozenNets(opt)
           built    == {"aux_net", "G_A", "G_B"}
                          \cup (IF opt.use_val THEN {"eval_net"} ELSE {})
                          \cup (IF opt.isTrain THEN {"D_A", "D_B"} ELSE {})
       IN  /\ opt' = IF failAux THEN opt ELSE o2
           /\ err' = IF failAux \/ failEval THEN "LoadError"
                     ELSE IF failIdt THEN "AssertionError" ELSE "none"
           /\ status' = IF failAux \/ failEval \/ failIdt THEN "failed" ELSE "ready"
           /\ nets' = IF failAux \/ failEval \/ failIdt THEN {} ELSE built
           /\ requires_grad' = IF failAux \/ failEval \/ failIdt THEN requires_grad
                               ELSE set_requires_grad(requires_grad, frozen, FALSE)
    /\ UNCHANGED <<pc, params, grad, inputVars, derivedVars, idt_A, idt_B, loss,
                   poolVars, evalVars, histVars>>

\* ------------------------------------------------------------- set_input
\* the data loader's batch: input['A'], input['B'], both of n samples
Inputs == { [A |-> Img("A", k, n), B |-> Img("B", 1, n)] : k \in ImageIds, n \in 1..MaxBatch }

\* lines 51-57: the forward hook stores the detached layer4 output under `name`
hook(act, name, output) == [act EXCEPT ![name] = Detach(output)]

\* self.aux_net(x): its layer4 output passes through the registered hook (line 89)
AuxNetRun(act, x) == hook(act, "layer4", NetApply("aux_net", params["aux_net"], x))

\* attention.calculate_heatmap, then from_numpy / permute / unsqueeze(0) (lines 154-165):
\* an H x W x C array turned into a 1 x C x H x W tensor
calculate_heatmap(real, act) == <<"numpy", 0, 1, <<real, act>>>>

\* lines 141-143
SelectA(input) == IF opt.direction = "AtoB" THEN input.A ELSE input.B
SelectB(input) == IF opt.direction = "AtoB" THEN input.B ELSE input.A

\* variant: the slot is read for aux_A only after the second run has overwritten it
CapturedA_late(act1, act2) == act2["layer4"]
\* the activation read into aux_A (line 148, between the two runs of the auxiliary
\* network: act1 is the slot after the first run, act2 after the second) and into
\* aux_B (line 151)
CapturedA(act1, act2) == act1["layer4"]
CapturedB(act1, act2) == act2["layer4"]

\* set_input, lines 133-165
SetInput ==
    /\ status = "ready" /\ pc = "idle"
    /\ \E input \in Inputs :
         LET rA   == SelectA(input)
             rB   == SelectB(input)
             act1 == AuxNetRun(activation, rA)      \* line 147
             act2 == AuxNetRun(act1, rB)            \* line 150
         IN  /\ real_A' = rA
             /\ real_B' = rB
             /\ activation' = act2
             /\ aux_A' = calculate_heatmap(rA, CapturedA(act1, act2))
             /\ aux_B' = calculate_heatmap(rB, CapturedB(act1, act2))
    /\ err' = "none"
    /\ UNCHANGED <<opt, status, pc, netVars, grad, derivedVars, idt_A, idt_B, loss,
                   poolVars, evalVars, histVars>>

\* --------------------------------------------------------------- forward
\* lines 172-175, each line assigning only if the lines before it did not raise
Fwd_fake_B == NetApply("G_A", params["G_A"], Cat1(real_A, aux_A))
\* variant: the reconstruction of A is conditioned on the other domain's map
Fwd_rec_A_other_aux(fB) == NetApply("G_B", params["G_B"], Cat1(fB, aux_B))
Fwd_rec_A(fB) == NetApply("G_B", params["G_B"], Cat1(fB, aux_A))
Fwd_fake_A == NetApply("G_B", params["G_B"], Cat1(real_B, aux_B))
Fwd_rec_B(fA) == NetApply("G_A", params["G_A"], Cat1(fA, aux_B))

ForwardResult ==
    LET ok1 == CatOK(real_A, aux_A)
        fB  == IF ok1 THEN Fwd_fake_B ELSE fake_B
        ok2 == ok1 /\ CatOK(fB, aux_A)
        rA  == IF ok2 THEN Fwd_rec_A(fB) ELSE rec_A
        ok3 == ok2 /\ CatOK(real_B, aux_B)
        fA  == IF ok3 THEN Fwd_fake_A ELSE fake_A
        ok4 == ok3 /\ CatOK(fA, aux_B)
        rB  == IF ok4 THEN Fwd_rec_B(fA) ELSE rec_B
    IN  [ok |-> ok4, fake_B |-> fB, rec_A |-> rA, fake_A |-> fA, rec_B |-> rB,
         err |-> IF ok4 THEN "none"
                 ELSE IF real_A = None THEN "AttributeError" ELSE "RuntimeError"]

DoForward(r) ==
    /\ fake_B' = r.fake_B
    /\ rec_A' = r.rec_A
    /\ fake_A' = r.fake_A
    /\ rec_B' = r.rec_B

\* forward called on its own (BaseModel.test)
Forward ==
    /\ status = "ready" /\ pc = "idle"
    /\ DoForward(ForwardResult)
    /\ err' = ForwardResult.err
    /\ UNCHANGED <<opt, status, pc, netVars, grad, inputVars, idt_A, idt_B, loss,
                   poolVars, evalVars, histVars>>

\* --------------------------------------------------- optimize_parameters
\* parameters handed to the two Adam optimizers (lines 128, 129)
OptimizerGParams == {"G_A", "G_B"}
OptimizerDParams == {"D_A", "D_B"}

\* loss.backward(): the loss's gradient is added to the .grad of every network in
\* the loss's graph whose parameters require gradients
Backward(g, tag, terms) ==
    LET reached == UNION {GraphNets(t) : t \in terms}
    IN  [n \in NetNames |-> IF n \in reached /\ requires_grad[n] THEN g[n] \cup {tag} ELSE g[n]]

\* optimizer.zero_grad()
ZeroGrad(g, ps) == [n \in NetNames |-> IF n \in ps THEN {} ELSE g[n]]

\* optimizer.step(): parameters that hold a gradient are updated
OptimStep(p, ps) == [n \in NetNames |-> IF n \in ps /\ grad[n] /= {} THEN p[n] + 1 ELSE p[n]]

\* util.image_pool.ImagePool.query: the outcomes <<pool after, image returned>>
PoolQuery(pool, image, size) ==
    IF size = 0 THEN {<<pool, image>>}
    ELSE IF Len(pool) < size THEN {<<Append(pool, image), image>>}
    ELSE {<<pool, image>>}
         \cup {<<[pool EXCEPT ![i] = image], pool[i]>> : i \in 1..Len(pool)}

\* line 241
OP_forward ==
    /\ status = "ready" /\ pc = "idle"
    /\ params["G_A"] < MaxSteps
    /\ DoForward(ForwardResult)
    /\ err' = ForwardResult.err
    /\ pc' = IF ForwardResult.ok THEN "D_freeze" ELSE "idle"
    /\ trace' = <<"forward">>
    /\ queried' = <<>>
    /\ UNCHANGED <<opt, status, netVars, grad, inputVars, idt_A, idt_B, loss,
                   poolVars, evalVars>>

\* line 243; without discriminators (test time) self.netD_A does not exist
OP_D_freeze ==
    /\ pc = "D_freeze"
    /\ IF {"D_A", "D_B"} \subseteq nets
       THEN /\ requires_grad' = set_requires_grad(requires_grad, {"D_A", "D_B"}, FALSE)
            /\ pc' = "G_zero_grad"
            /\ trace' = Append(trace, "D_freeze")
            /\ err' = "none"
       ELSE /\ pc' = "idle"
            /\ err' = "AttributeError"
            /\ UNCHANGED <<requires_grad, trace>>
    /\ UNCHANGED <<opt, status, nets, params, grad, inputVars, derivedVars, idt_A, idt_B,
                   loss, poolVars, evalVars, queried>>

\* line 244
OP_G_zero_grad ==
    /\ pc = "G_zero_grad"
    /\ grad' = ZeroGrad(grad, OptimizerGParams)
    /\ pc' = "backward_G"
    /\ trace' = Append(trace, "G_zero_grad")
    /\ UNCHANGED <<opt, status, err, netVars, inputVars, derivedVars, idt_A, idt_B, loss,
                   poolVars, evalVars, queried>>

\* variant: the identity branch taken for a zero weight too
UseIdentity_nonneg(lambda_idt) == lambda_idt >= 0
\* line 215: is the identity loss used
UseIdentity(lambda_idt) == lambda_idt > 0

\* line 235
TotalG(l) == l["G_A"] + l["G_B"] + l["cycle_A"] + l["cycle_B"] + l["idt_A"] + l["idt_B"]

\* line 245: backward_G, lines 209-236
OP_backward_G ==
    /\ pc = "backward_G"
    /\ LET lambda_idt == opt.lambda_identity
           use   == UseIdentity(lambda_idt)
           iA    == NetApply("G_A", params["G_A"], Cat1(real_B, aux_B))   \* line 217
           iB    == NetApply("G_B", params["G_B"], Cat1(real_A, aux_A))   \* line 220
           predA == NetApply("D_A", params["D_A"], fake_B)                \* line 227
           predB == NetApply("D_B", params["D_B"], fake_A)                \* line 229
           l1 == SetLoss(loss, "idt_A",
                         IF use THEN L1Loss(iA, real_B) * lambda_B * lambda_idt ELSE 0)
           l2 == SetLoss(l1, "idt_B",
                         IF use THEN L1Loss(iB, real_A) * lambda_A * lambda_idt ELSE 0)
           l3 == SetLoss(l2, "G_A", GANLoss(predA, TRUE))
           l4 == SetLoss(l3, "G_B", GANLoss(predB, TRUE))
           l5 == SetLoss(l4, "cycle_A", L1Loss(rec_A, real_A) * lambda_A)
           l6 == SetLoss(l5, "cycle_B", L1Loss(rec_B, real_B) * lambda_B)
           graph == {predA, predB, rec_A, real_A, rec_B, real_B}
                       \cup (IF use THEN {iA, iB} ELSE {})
       IN  /\ idt_A' = IF use THEN iA ELSE idt_A
           /\ idt_B' = IF use THEN iB ELSE idt_B
           /\ loss' = SetLoss(l6, "G", TotalG(l6))
           /\ grad' = Backward(grad, "loss_G", graph)                     \* line 236
    /\ pc' = "G_step"
    /\ trace' = Append(trace, "backward_G")
    /\ UNCHANGED <<opt, status, err, netVars, inputVars, derivedVars, poolVars, evalVars,
                   queried>>

\* line 246
OP_G_step ==
    /\ pc = "G_step"
    /\ params' = OptimStep(params, OptimizerGParams)
    /\ pc' = "D_unfreeze"
    /\ trace' = Append(trace, "G_step")
    /\ UNCHANGED <<opt, status, err, nets, requires_grad, grad, inputVars, derivedVars,
                   idt_A, idt_B, loss, poolVars, evalVars, queried>>

\* variant: the discriminators are left frozen after the generator update
OP_D_unfreeze_missing ==
    /\ pc = "D_unfreeze"
    /\ pc' = "D_zero_grad"
    /\ trace' = Append(trace, "D_unfreeze")
    /\ UNCHANGED <<opt, status, err, netVars, grad, inputVars, derivedVars, idt_A,
                   idt_B, loss, poolVars, evalVars, queried>>

\* line 248
OP_D_unfreeze ==
    /\ pc = "D_unfreeze"
    /\ requires_grad' = set_requires_grad(requires_grad, {"D_A", "D_B"}, TRUE)
    /\ pc' = "D_zero_grad"
    /\ trace' = Append(trace, "D_unfreeze")
    /\ UNCHANGED <<opt, status, err, nets, params, grad, inputVars, derivedVars, idt_A,
                   idt_B, loss, poolVars, evalVars, queried>>

\* line 249
OP_D_zero_grad ==
    /\ pc = "D_zero_grad"
    /\ grad' = ZeroGrad(grad, OptimizerDParams)
    /\ pc' = "backward_D_A"
    /\ trace' = Append(trace, "D_zero_grad")
    /\ UNCHANGED <<opt, status, err, netVars, inputVars, derivedVars, idt_A, idt_B, loss,
                   poolVars, evalVars, queried>>

\* variant: the fake enters the discriminator with its graph attached
FakeForD_attached(fake) == fake
\* line 192: what the discriminator is run on for the fake half of its loss
FakeForD(fake) == Detach(fake)

\* backward_D_basic, lines 177-197: <<loss_D (in halves), terms of its graph>>
backward_D_basic(netD, real, fake) ==
    LET pred_real == NetApply(netD, params[netD], real)
        pred_fake == NetApply(netD, params[netD], FakeForD(fake))
    IN  [loss_D2 |-> GANLoss(pred_real, TRUE) + GANLoss(pred_fake, FALSE),
         graph   |-> {pred_real, pred_fake},
         fed     |-> FakeForD(fake)]

\* line 250: backward_D_A, lines 199-202
OP_backward_D_A ==
    /\ pc = "backward_D_A"
    /\ \E q \in PoolQuery(fake_B_pool, fake_B, opt.pool_size) :
         LET r == backward_D_basic("D_A", real_B, q[2])
         IN  /\ fake_B_pool' = q[1]
             /\ loss' = SetLoss(loss, "D_A", r.loss_D2)
             /\ grad' = Backward(grad, "loss_D_A", r.graph)
             /\ queried' = Append(queried, <<"fake_B_pool", fake_B, q[2], r.fed>>)
    /\ pc' = "backward_D_B"
    /\ trace' = Append(trace, "backward_D_A")
    /\ UNCHANGED <<opt, status, err, netVars, inputVars, derivedVars, idt_A, idt_B,
                   fake_A_pool, evalVars>>

\* line 251: backward_D_B, lines 204-207
OP_backward_D_B ==
    /\ pc = "backward_D_B"
    /\ \E q \in PoolQuery(fake_A_pool, fake_A, opt.pool_size) :
         LET r == backward_D_basic("D_B", real_A, q[2])
         IN  /\ fake_A_pool' = q[1]
             /\ loss' = SetLoss(loss, "D_B", r.loss_D2)
             /\ grad' = Backward(grad, "loss_D_B", r.graph)
             /\ queried' = Append(queried, <<"fake_A_pool", fake_A, q[2], r.fed>>)
    /\ pc' = "D_step"
    /\ trace' = Append(trace, "backward_D_B")
    /\ UNCHANGED <<opt, status, err, netVars, inputVars, derivedVars, idt_A, idt_B,
                   fake_B_pool, evalVars>>

\* line 252
OP_D_step ==
    /\ pc = "D_step"
    /\ params' = OptimStep(params, OptimizerDParams)
    /\ pc' = "idle"
    /\ trace' = Append(trace, "D_step")
    /\ UNCHANGED <<opt, status, err, nets, requires_grad, grad, inputVars, derivedVars,
                   idt_A, idt_B, loss, poolVars, evalVars, queried>>

\* ------------------------------------------------------- model_evaluation
Repeat(v, n) == [i \in 1..n |-> v]

\* a tensor computed inside `with torch.no_grad()` (line 264) records no graph
NoGrad(t) == Detach(t)

\* model_evaluation, lines 254-270: forward (line 257) runs before the no_grad block
\* is entered, in the caller's grad mode
ModelEvaluation ==
    /\ status = "ready" /\ pc = "idle"
    /\ DoForward(ForwardResult)                                            \* line 257
    /\ LET images == Cat0(ForwardResult.fake_A, ForwardResult.fake_B)      \* line 260
           lab    == Repeat(0, opt.batch_size) \o Repeat(1, opt.batch_size) \* line 261
           out    == NoGrad(NetApply("eval_net", params["eval_net"], images)) \* 264-265
       IN  IF ~ForwardResult.ok
           THEN err' = ForwardResult.err /\ UNCHANGED evalVars
           ELSE IF "eval_net" \notin nets
           THEN err' = "AttributeError" /\ UNCHANGED evalVars
           ELSE /\ err' = "none"
                /\ preds' = [i \in 1..Batch(out) |-> (Val(out) + i) % 2]   \* line 268
                /\ labels' = lab
    /\ UNCHANGED <<opt, status, pc, netVars, grad, inputVars, idt_A, idt_B, loss,
                   poolVars, histVars>>

\* =========================================================================
\*  UnetModel
\* =========================================================================
VARIABLES
    uopt,            \* the option object handed to UnetModel.__init__
    ustatus,         \* "new" | "ready" | "failed": outcome of __init__
    uerr,            \* <<exception raised by the last handler, value its message names>>,
                     \* <<"none", "">> if it returned
    constructed,     \* history: network classes instantiated by get_network_by_name
    netUnet,         \* self.netUnet
    criteria,        \* the criterion<NAME> attributes of self
    train_criterion, \* self.train_criterion
    optimizer,       \* self.optimizer
    uparams,         \* parameter version of netUnet
    img, seg, output,
    train_loss,
    visuals          \* input_image, true_seg, pred_seg: each <<index taken, value>>

unetVars == <<uopt, ustatus, uerr, constructed, netUnet, criteria, train_criterion,
              optimizer, uparams, img, seg, output, train_loss, visuals>>

vars == <<ganVars, unetVars>>

\* names are sequences of character codes where the code transforms them
s_bce    == <<98, 99, 101>>
s_BCE    == <<66, 67, 69>>
s_IOU    == <<73, 79, 85>>
s_MSSSIM == <<77, 83, 83, 83, 73, 77>>
s_iou    == <<105, 111, 117>>
s_Iou    == <<73, 111, 117>>
s_msssim == <<109, 115, 115, 115, 105, 109>>
s_dice   == <<100, 105, 99, 101>>
s_criterion == <<99, 114, 105, 116, 101, 114, 105, 111, 110>>

\* variant: the name is used as given
Upper_asis(s) == s
\* str.upper()
Upper(s) == [i \in 1..Len(s) |-> IF s[i] \in 97..122 THEN s[i] - 32 ELSE s[i]]

UnetTypes == {"unet", "unet_2plus", "unet_3plus", "unet_3plus_deepsup",
              "unet_3plus_deepsup_cgm"}
LossTypes == {s_bce, s_BCE, s_iou, s_Iou, s_msssim, s_dice, <<>>}

\* variant: an unrecognized name falls back to the plain U-Net
NetworkClass_fallback(unet_type) ==
    CASE unet_type = "unet_2plus" -> "UNet_2Plus"
      [] unet_type = "unet_3plus" -> "UNet_3Plus"
      [] unet_type = "unet_3plus_deepsup" -> "UNet_3Plus_DeepSup"
      [] unet_type = "unet_3plus_deepsup_cgm" -> "UNet_3Plus_DeepSup_CGM"
      [] OTHER -> "UNet"

\* lines 47-58: the class each name selects, "" for an unrecognized name
NetworkClass(unet_type) ==
    CASE unet_type = "unet" -> "UNet"
      [] unet_type = "unet_2plus" -> "UNet_2Plus"
      [] unet_type = "unet_3plus" -> "UNet_3Plus"
      [] unet_type = "unet_3plus_deepsup" -> "UNet_3Plus_DeepSup"
      [] unet_type = "unet_3plus_deepsup_cgm" -> "UNet_3Plus_DeepSup_CGM"
      [] OTHER -> ""

NoNet == [wrapper |-> "", model |-> "", device_ids |-> <<>>]

\* lines 65-69: the value bound to `net` when the function returns, NoNet if unbound
WrapNetwork(model, gpu_ids) ==
    IF Len(gpu_ids) > 0
    THEN [wrapper |-> "DataParallel", model |-> model, device_ids |-> gpu_ids]
    ELSE NoNet

\* get_network_by_name, lines 44-69
get_network_by_name(o) ==
    LET cls == NetworkClass(o.unet_type)
        o2  == [o EXCEPT !.load_size = 512, !.crop_size = 320]
        net == WrapNetwork(cls, o.gpu_ids)
    IN  IF cls = ""
        THEN [err |-> "NotImplementedError", named |-> o.unet_type, opt |-> o,
              built |-> <<>>, net |-> NoNet]
        ELSE IF Len(o.gpu_ids) > 0 /\ ~o.cuda_available
        THEN [err |-> "AssertionError", named |-> "", opt |-> o2, built |-> <<cls>>,
              net |-> NoNet]
        ELSE IF net = NoNet
        THEN [err |-> "UnboundLocalError", named |-> "net", opt |-> o2, built |-> <<cls>>,
              net |-> NoNet]
        ELSE [err |-> "none", named |-> "", opt |-> o2, built |-> <<cls>>, net |-> net]

\* lines 95-97
Criteria ==
    { <<s_criterion \o s_BCE, "BCELoss">>, <<s_criterion \o s_IOU, "IOU">>,
      <<s_criterion \o s_MSSSIM, "MSSSIM">> }

\* getattr(self, name): the attribute's value, "" if there is none (AttributeError)
getattr(attrs, name) ==
    IF \E a \in attrs : a[1] = name THEN (CHOOSE a \in attrs : a[1] = name)[2] ELSE ""

\* line 99
SelectCriterion(attrs, loss_type) == getattr(attrs, s_criterion \o Upper(loss_type))

UnetOptions ==
    { o \in [ isTrain : BOOLEAN, unet_type : UnetTypes \cup {"unet_4plus"},
              loss_type : LossTypes, gpu_ids : {<<>>, <<0>>}, cuda_available : BOOLEAN,
              load_size : {286}, crop_size : {256}, batch_size : 1..MaxBatch ] :
        \* --loss_type exists only when is_train (line 39)
        ~o.isTrain => o.loss_type = s_bce }

NoError == <<"none", "">>
NoVisuals == [input_image |-> <<>>, true_seg |-> <<>>, pred_seg |-> <<>>]

UnetInit ==
    /\ uopt \in UnetOptions
    /\ ustatus = "new"
    /\ uerr = NoError
    /\ constructed = <<>>
    /\ netUnet = NoNet
    /\ criteria = {}
    /\ train_criterion = ""
    /\ optimizer = ""
    /\ uparams = 0
    /\ img = <<>> /\ seg = <<>> /\ output = <<>>
    /\ train_loss = <<>>
    /\ visuals = NoVisuals

\* __init__, lines 71-105
UnetConfigure ==
    /\ ustatus = "new"
    /\ LET r   == get_network_by_name(uopt)                       \* line 91
           tc  == SelectCriterion(Criteria, uopt.loss_type)       \* line 99
           bad == uopt.isTrain /\ tc = ""
       IN  /\ uopt' = r.opt
           /\ constructed' = r.built
           /\ IF r.err /= "none"
              THEN /\ ustatus' = "failed" /\ uerr' = <<r.err, r.named>>
                   /\ UNCHANGED <<netUnet, criteria, train_criterion, optimizer>>
              ELSE IF bad
              THEN /\ ustatus' = "failed" /\ uerr' = <<"AttributeError", "">>
                   /\ UNCHANGED <<netUnet, criteria, train_criterion, optimizer>>
              ELSE /\ ustatus' = "ready" /\ uerr' = NoError
                   /\ netUnet' = r.net
                   /\ criteria' = IF uopt.isTrain THEN Criteria ELSE {}
                   /\ train_criterion' = IF uopt.isTrain THEN tc ELSE ""
                   /\ optimizer' = IF uopt.isTrain THEN "SGD" ELSE ""
    /\ UNCHANGED <<uparams, img, seg, output, train_loss, visuals>>

\* the data loader's batch: n samples, each with a mask value encoded in [-1,1]
UnetInputs ==
    { [img |-> [i \in 1..n |-> i], seg |-> [i \in 1..n |-> 2 * (i % 2) - 1]] :
      n \in 1..MaxBatch }

\* set_input, lines 109-118
UnetSetInput ==
    /\ ustatus = "ready"
    /\ \E input \in UnetInputs :
         /\ img' = input.img
         /\ seg' = [i \in 1..Len(input.seg) |-> (input.seg[i] + 1) \div 2]
    /\ uerr' = NoError
    /\ UNCHANGED <<uopt, ustatus, constructed, netUnet, criteria, train_criterion,
                   optimizer, uparams, output, train_loss, visuals>>

\* self.netUnet(self.img), line 122
UnetOutput == [i \in 1..Len(img) |-> (img[i] + uparams) % 2]

\* forward, lines 120-122
UnetForward ==
    /\ ustatus = "ready"
    /\ IF img = <<>>
       THEN uerr' = <<"AttributeError", "">> /\ UNCHANGED output
       ELSE uerr' = NoError /\ output' = UnetOutput
    /\ UNCHANGED <<uopt, ustatus, constructed, netUnet, criteria, train_criterion,
                   optimizer, uparams, img, seg, train_loss, visuals>>

\* optimize_parameters, lines 132-137, with backward, lines 124-130
UnetOptimizeParameters ==
    /\ ustatus = "ready"
    /\ uparams < MaxSteps
    /\ IF img = <<>>
       THEN uerr' = <<"AttributeError", "">> /\ UNCHANGED <<output, train_loss, uparams>>
       ELSE IF optimizer = ""
       THEN uerr' = <<"AttributeError", "">> /\ output' = UnetOutput
            /\ UNCHANGED <<train_loss, uparams>>
       ELSE /\ uerr' = NoError
            /\ output' = UnetOutput
            /\ train_loss' = <<train_criterion, UnetOutput, seg>>
            /\ uparams' = uparams + 1
    /\ UNCHANGED <<uopt, ustatus, constructed, netUnet, criteria, train_criterion,
                   optimizer, img, seg, visuals>>

\* compute_visuals, lines 139-154
UnetComputeVisuals ==
    /\ ustatus = "ready"
    /\ \E idx \in 0..(uopt.batch_size - 1) :                              \* line 143
         IF img = <<>> \/ output = <<>>
         THEN uerr' = <<"AttributeError", "">> /\ UNCHANGED visuals
         ELSE IF idx >= Len(img)                                          \* line 146
         THEN uerr' = <<"IndexError", "">> /\ UNCHANGED visuals
         ELSE IF idx >= Len(output)                                       \* line 153
         THEN /\ uerr' = <<"IndexError", "">>
              /\ visuals' = [visuals EXCEPT !.input_image = <<idx, img[idx + 1]>>,
                                            !.true_seg = <<idx, seg[idx + 1] * 2 - 1>>]
         ELSE /\ uerr' = NoError
              /\ visuals' = [input_image |-> <<idx, img[idx + 1]>>,
                             true_seg |-> <<idx, seg[idx + 1] * 2 - 1>>,
                             pred_seg |-> <<idx, output[idx + 1] * 2 - 1>>]
    /\ UNCHANGED <<uopt, ustatus, constructed, netUnet, criteria, train_criterion,
                   optimizer, uparams, img, seg, output, train_loss>>

\* =========================================================================
\*  Specifications: one model object per run
\* =========================================================================
GanIdle ==
    /\ opt = [isTrain |-> FALSE] /\ status = "none" /\ err = "none" /\ pc = "idle"
    /\ nets = {} /\ params = <<>> /\ requires_grad = <<>> /\ grad = <<>>
    /\ activation = <<>>
    /\ real_A = None /\ real_B = None /\ aux_A = None /\ aux_B = None
    /\ fake_B = None /\ rec_A = None /\ fake_A = None /\ rec_B = None
    /\ idt_A = None /\ idt_B = None
    /\ loss = NoLosses
    /\ fake_A_pool = <<>> /\ fake_B_pool = <<>>
    /\ preds = <<>> /\ labels = <<>>
    /\ trace = <<>> /\ queried = <<>>

UnetIdle ==
    /\ uopt = [isTrain |-> FALSE] /\ ustatus = "none" /\ uerr = NoError
    /\ constructed = <<>> /\ netUnet = NoNet /\ criteria = {}
    /\ train_criterion = "" /\ optimizer = "" /\ uparams = 0
    /\ img = <<>> /\ seg = <<>> /\ output = <<>>
    /\ train_loss = <<>> /\ visuals = NoVisuals

\* --model perceptual_cycle_gan
Init == GanInit /\ UnetIdle

Next ==
    \/ GanConfigure /\ UNCHANGED unetVars
    \/ SetInput /\ UNCHANGED unetVars
    \/ Forward /\ UNCHANGED unetVars
    \/ OP_forward /\ UNCHANGED unetVars
    \/ OP_D_freeze /\ UNCHANGED unetVars
    \/ OP_G_zero_grad /\ UNCHANGED unetVars
    \/ OP_backward_G /\ UNCHANGED unetVars
    \/ OP_G_step /\ UNCHANGED unetVars
    \/ OP_D_unfreeze /\ UNCHANGED unetVars
    \/ OP_D_zero_grad /\ UNCHANGED unetVars
    \/ OP_backward_D_A /\ UNCHANGED unetVars
    \/ OP_backward_D_B /\ UNCHANGED unetVars
    \/ OP_D_step /\ UNCHANGED unetVars
    \/ ModelEvaluation /\ UNCHANGED unetVars

Spec == Init /\ [][Next]_vars

\* --model unet
UnetSpecInit == UnetInit /\ GanIdle

UnetNext ==
    \/ UnetConfigure /\ UNCHANGED ganVars
    \/ UnetSetInput /\ UNCHANGED ganVars
    \/ UnetForward /\ UNCHANGED ganVars
    \/ UnetOptimizeParameters /\ UNCHANGED ganVars
    \/ UnetComputeVisuals /\ UNCHANGED ganVars

SpecUnet == UnetSpecInit /\ [][UnetNext]_vars

\* =========================================================================
\*  Properties of PerceptualCycleGANModel, stated for Spec
\* =========================================================================
IsPrefix(a, b) == Len(a) <= Len(b) /\ \A i \in 1..Len(a) : a[i] = b[i]

StepOrder == <<"forward", "D_freeze", "G_zero_grad", "backward_G", "G_step", "D_unfreeze",
               "D_zero_grad", "backward_D_A", "backward_D_B", "D_step">>

GeneratorPhase == {"G_zero_grad", "backward_G", "G_step"}
DiscriminatorPhase == {"D_zero_grad", "backward_D_A", "backward_D_B", "D_step"}

SameParams(ns) == \A n \in ns : params'[n] = params[n]

\* C1: every call of optimize_parameters takes its steps in the order forward, freeze
\* D, zero G grads, backward_G, optimizer_G step, unfreeze D, zero D grads,
\* backward_D_A, backward_D_B, optimizer_D step; D_A and D_B do not track gradients
\* during the generator steps; the parameters of D_A and D_B do not change before
\* the discriminator steps and those of G_A and G_B do not change during them.
C1_OptimizeOrder ==
    /\ [](IsPrefix(trace, StepOrder))
    /\ [](pc /= "idle" => Len(trace) < Len(StepOrder) /\ StepOrder[Len(trace) + 1] = pc)
    /\ [](pc \in GeneratorPhase => ~requires_grad["D_A"] /\ ~requires_grad["D_B"])
    /\ [](pc \in DiscriminatorPhase => requires_grad["D_A"] /\ requires_grad["D_B"])
    /\ [][ /\ (pc \notin DiscriminatorPhase => SameParams({"D_A", "D_B"}))
           /\ (pc \in DiscriminatorPhase => SameParams({"G_A", "G_B"})) ]_vars

\* C1 witness: a call of optimize_parameters has run to its end and both optimizers
\* have updated their networks
C1_Witness ==
    /\ pc = "idle" /\ trace = StepOrder
    /\ params["G_A"] = 1 /\ params["G_B"] = 1 /\ params["D_A"] = 1 /\ params["D_B"] = 1

GradFromD(n) == grad[n] \cap {"loss_D_A", "loss_D_B"}

\* C2: in one optimize_parameters call fake_B_pool is queried once, with the current
\* fake_B, in backward_D_A, and fake_A_pool once, with the current fake_A, in
\* backward_D_B; the pools change in no other step; the tensor each discriminator is
\* run on is the detached result of its query; no discriminator loss ever puts a
\* gradient on a parameter of G_A or G_B.
C2_PoolFakeDetached ==
    /\ [](Len(queried) = (IF pc \in {"backward_D_B"} THEN 1
                          ELSE IF pc \in {"D_step"} THEN 2
                          ELSE IF pc = "idle" /\ trace = StepOrder THEN 2
                          ELSE 0))
    /\ [](Len(queried) >= 1 =>
            /\ queried[1][1] = "fake_B_pool" /\ (pc /= "idle" => queried[1][2] = fake_B)
            /\ queried[1][4] = Detach(queried[1][3]))
    /\ [](Len(queried) >= 2 =>
            /\ queried[2][1] = "fake_A_pool" /\ (pc /= "idle" => queried[2][2] = fake_A)
            /\ queried[2][4] = Detach(queried[2][3]))
    /\ [](GradFromD("G_A") = {} /\ GradFromD("G_B") = {})
    /\ [][ /\ (fake_B_pool' /= fake_B_pool => pc = "backward_D_A")
           /\ (fake_A_pool' /= fake_A_pool => pc = "backward_D_B") ]_vars

\* C2 witness: a step has ended in which fake_B_pool returned an image of its
\* history, not the fake just generated, and both discriminators hold the gradient
\* of their loss
C2_Witness ==
    /\ pc = "idle" /\ Len(queried) = 2
    /\ queried[1][3] /= queried[1][2]
    /\ "loss_D_A" \in grad["D_A"] /\ "loss_D_B" \in grad["D_B"]

\* C3: the parameters of the auxiliary and of the evaluation network never change
\* and never require gradients once the model is configured; the parameters of G_A
\* and G_B change only in the optimizer_G step and those of D_A and D_B only in the
\* optimizer_D step.
C3_ParamsOwnedByOptimizer ==
    /\ [](status = "ready" =>
            \A n \in {"aux_net", "eval_net"} : n \in nets => ~requires_grad[n])
    /\ [][ /\ SameParams({"aux_net", "eval_net"})
           /\ (~SameParams({"G_A", "G_B"}) => pc = "G_step")
           /\ (~SameParams({"D_A", "D_B"}) => pc = "D_step") ]_vars

\* C3 witness: a model with an evaluation network has been trained for a step and
\* then evaluated
C3_Witness ==
    /\ "eval_net" \in nets /\ preds /= <<>>
    /\ params["G_A"] >= 1 /\ params["D_A"] >= 1
    /\ params["aux_net"] = 0 /\ params["eval_net"] = 0

\* C4: whenever a step changes one of fake_B, rec_A, fake_A, rec_B, their new values
\* are G_A(real_A + aux_A), G_B(that fake_B + aux_A), G_B(real_B + aux_B),
\* G_A(that fake_A + aux_B), and the step changes no option, network, gradient,
\* input, auxiliary map, identity image, loss or pool.
C4_ForwardComputes ==
    [][ derivedVars' /= derivedVars =>
          /\ fake_B' = NetApply("G_A", params["G_A"], Cat1(real_A, aux_A))
          /\ rec_A' = NetApply("G_B", params["G_B"], Cat1(fake_B', aux_A))
          /\ fake_A' = NetApply("G_B", params["G_B"], Cat1(real_B, aux_B))
          /\ rec_B' = NetApply("G_A", params["G_A"], Cat1(fake_A', aux_B))
          /\ UNCHANGED <<opt, status, netVars, grad, inputVars, idt_A, idt_B, loss,
                         poolVars>> ]_vars

\* C4 witness: forward has run on updated generators with two different auxiliary
\* maps
C4_Witness ==
    /\ params["G_A"] = 1 /\ aux_A /= aux_B /\ err = "none"
    /\ fake_B = NetApply("G_A", 1, Cat1(real_A, aux_A))
    /\ rec_A = NetApply("G_B", 1, Cat1(fake_B, aux_A))
    /\ rec_B = NetApply("G_A", 1, Cat1(fake_A, aux_B))

AuxOf(real) ==
    calculate_heatmap(real, Detach(NetApply("aux_net", params["aux_net"], real)))

\* C5: once an input is set, real_A is the image of the domain the direction selects
\* ('A' for AtoB, 'B' otherwise) and real_B the other one, aux_A is derived from
\* the activation of the auxiliary network's run on the current real_A and aux_B
\* from that of its run on the current real_B.
C5_AuxFromOwnRun ==
    real_A /= None =>
        /\ real_A[1] = (IF opt.direction = "AtoB" THEN "A" ELSE "B")
        /\ real_B[1] = (IF opt.direction = "AtoB" THEN "B" ELSE "A")
        /\ aux_A = AuxOf(real_A)
        /\ aux_B = AuxOf(real_B)

\* C5 witness: a second input has been set with another image after a forward pass
\* on the first, with the domains swapped by the direction flag
C5_Witness ==
    /\ real_A /= None /\ fake_A /= None
    /\ opt.direction = "BtoA"
    /\ fake_A[4][1][4][1] /= real_B
    /\ activation["layer4"] = Detach(NetApply("aux_net", 0, real_B))

FourLosses == loss["G_A"] + loss["G_B"] + loss["cycle_A"] + loss["cycle_B"]

\* C6: after backward_G, with lambda_identity = 0 both identity losses are 0, no
\* identity image has been computed and loss_G is the sum of the two adversarial and
\* the two cycle losses; with lambda_identity > 0 both identity images have been
\* computed and loss_G is that sum plus the two identity losses.
C6_IdentityBranch ==
    "G" \in DOMAIN loss =>
        /\ (opt.lambda_identity = 0 =>
              /\ loss["idt_A"] = 0 /\ loss["idt_B"] = 0
              /\ idt_A = None /\ idt_B = None
              /\ loss["G"] = FourLosses)
        /\ (opt.lambda_identity > 0 =>
              /\ idt_A /= None /\ idt_B /= None
              /\ (pc = "G_step" =>
                    /\ idt_A = NetApply("G_A", params["G_A"], Cat1(real_B, aux_B))
                    /\ idt_B = NetApply("G_B", params["G_B"], Cat1(real_A, aux_A)))
              /\ loss["G"] = FourLosses + loss["idt_A"] + loss["idt_B"])

\* C6 witness: backward_G has just run with lambda_identity = 0 and a positive
\* generator loss
C6_Witness ==
    /\ pc = "G_step" /\ opt.lambda_identity = 0
    /\ loss["G"] > 0 /\ loss["idt_A"] = 0 /\ idt_A = None

C11_LabelsMatchImages ==
    preds /= <<>> =>
        /\ Len(labels) = Len(preds)
        /\ \A i \in 1..Len(preds) : labels[i] = (IF i <= Batch(fake_A) THEN 0 ELSE 1)

\* C12 as stated: a model_evaluation that returns has computed fake_A and fake_B
\* without recording a graph, and has changed no network parameter and no pool.
C12_EvaluationWithoutGrad ==
    [][ (preds' /= preds \/ labels' /= labels) =>
          /\ GraphNets(fake_A') = {} /\ GraphNets(fake_B') = {}
          /\ UNCHANGED <<params, poolVars>> ]_vars

\* =========================================================================
\*  Properties of UnetModel, stated for SpecUnet
\* =========================================================================
\* C8: configuring with a unet_type outside the five names ends in a
\* NotImplementedError that names the value, before any network class is
\* instantiated, with the options (load_size and crop_size among them) left as they
\* were and no network, criterion or optimizer stored.
C8_UnrecognizedType ==
    [][ (ustatus = "new" /\ ustatus' /= "new" /\ uopt.unet_type \notin UnetTypes) =>
          /\ ustatus' = "failed"
          /\ uerr' = <<"NotImplementedError", uopt.unet_type>>
          /\ constructed' = <<>>
          /\ uopt' = uopt
          /\ netUnet' = NoNet /\ criteria' = {} /\ train_criterion' = ""
          /\ optimizer' = "" ]_vars

\* C8 witness: the configuration of 'unet_4plus' has failed
C8_Witness ==
    /\ ustatus = "failed" /\ uopt.unet_type = "unet_4plus"
    /\ uerr = <<"NotImplementedError", "unet_4plus">>
    /\ uopt.load_size = 286 /\ uopt.crop_size = 256

ExpectedClass ==
    [ unet |-> "UNet", unet_2plus |-> "UNet_2Plus", unet_3plus |-> "UNet_3Plus",
      unet_3plus_deepsup |-> "UNet_3Plus_DeepSup",
      unet_3plus_deepsup_cgm |-> "UNet_3Plus_DeepSup_CGM" ]

ExpectedCriterion(loss_type) ==
    CASE loss_type \in {s_bce, s_BCE} -> "BCELoss"
      [] loss_type \in {s_iou, s_Iou} -> "IOU"
      [] loss_type = s_msssim -> "MSSSIM"
      [] OTHER -> ""

\* C9 as stated: for each of the five names and every gpu_ids (on a machine whose
\* CUDA state matches it, with a loss_type that has a criterion) configuration
\* completes, netUnet is the network of the selected class, load_size is 512 and
\* crop_size is 320.
C9_RecognizedTypeConfigures ==
    ( /\ ustatus /= "new" /\ uopt.unet_type \in UnetTypes
      /\ (uopt.gpu_ids = <<>> \/ uopt.cuda_available)
      /\ ExpectedCriterion(uopt.loss_type) /= "" )
    => /\ ustatus = "ready"
       /\ netUnet.model = ExpectedClass[uopt.unet_type]
       /\ uopt.load_size = 512 /\ uopt.crop_size = 320

\* C10: in a training configuration that gets as far as choosing the loss, the
\* train criterion is the one of BCELoss, IOU, MSSSIM that the loss_type names, and
\* a loss_type naming none of them ends the configuration in an AttributeError; a
\* training step therefore never meets a missing criterion.
C10_LossByName ==
    /\ (ustatus /= "new" /\ uopt.isTrain /\ get_network_by_name(uopt).err = "none") =>
          IF ExpectedCriterion(uopt.loss_type) = ""
          THEN ustatus = "failed" /\ uerr[1] = "AttributeError" /\ train_criterion = ""
          ELSE /\ ustatus = "ready"
               /\ train_criterion = ExpectedCriterion(uopt.loss_type)
               /\ Cardinality({c \in criteria : c[2] = train_criterion}) = 1
    /\ (train_loss /= <<>> => train_loss[1] = ExpectedCriterion(uopt.loss_type)
                              /\ train_loss[1] /= "")

\* C10 witness: a training configuration with loss_type 'dice' has failed at the
\* criterion lookup, after its network was built
C10_Witness ==
    /\ ustatus = "failed" /\ uerr[1] = "AttributeError"
    /\ uopt.isTrain /\ uopt.loss_type = s_dice /\ constructed /= <<>>

\* C13 as stated: with img, seg and output set by the last set_input and forward,
\* compute_visuals picks an index inside the batch, whatever the size of the batch,
\* and exposes the image, mask and prediction of that one index.
C13_VisualIndexInBatch ==
    [][ ( /\ ustatus = "ready" /\ img /= <<>> /\ Len(output) = Len(img)
          /\ (visuals' /= visuals \/ uerr'[1] = "IndexError") ) =>
          /\ uerr' = NoError
          /\ \E idx \in 0..(Len(img) - 1) :
               visuals' = [input_image |-> <<idx, img[idx + 1]>>,
                           true_seg |-> <<idx, seg[idx + 1] * 2 - 1>>,
                           pred_seg |-> <<idx, output[idx + 1] * 2 - 1>>] ]_vars

====
